---- MODULE Spec2Model ----
(***************************************************************************)
(* Model of the data-analysis assistant (src/App.py, src/ferramentas.py). *)
(*                                                                         *)
(* One script run of App.py is one user turn: the uploaded file is loaded  *)
(* by carregar_csv_flexivel, the tools are built over the resulting frame  *)
(* by criar_ferramentas, and the handler of the pressed button calls       *)
(* orquestrador.invoke, the AgentExecutor configured at App.py:198-202.    *)
(*                                                                         *)
(* App.py is read by the statements of its handlers.  The with-blocks at   *)
(* App.py:210 and App.py:238 are read as the bodies of the "if st.button"  *)
(* lines above them, inside "if arquivo_carregado is not None".  The       *)
(* handlers of "Responder pergunta" and "Gerar grafico" start at column 0, *)
(* outside that block, where the name orquestrador is bound only if a file *)
(* was loaded in this run; the text of each question is an input.          *)
(***************************************************************************)
EXTENDS Integers, Sequences, FiniteSets, TLC

(***************************************************************************)
(* Bounds of the model.                                                    *)
(***************************************************************************)
MaxTurns == 2
MaxColunas == 3
MaxDados == 1

(***************************************************************************)
(* Program constants.                                                      *)
(***************************************************************************)
max_iterations == 4
max_linhas == 50

NoValue == "null"

(***************************************************************************)
(* Cells of a parsed table.  read_csv turns an empty field into NaN, whose *)
(* astype(str) image is "nan"; every other field keeps its text.           *)
(***************************************************************************)
Vazios == {"", "nan", "NaN", "NONE", "None"}

\* text that pd.to_numeric / the type inference of read_csv accept as a number
TextoNumerico == {"12", "1.5"}

\* .str.strip(): the cells of the model carry no surrounding blanks but " "
Strip(s) == IF s = " " THEN "" ELSE s

\* .str.replace(".", "").str.replace(",", "."): "1,5" becomes "1.5", "1.5" becomes "15"
NormalizaSeparadores(s) ==
    CASE s = "1,5" -> "1.5"
      [] s = "1.5" -> "15"
      [] OTHER -> s

\* pd.to_numeric(serie, errors="coerce") on one cell: TRUE iff the result is not NaN
ToNumericNotNa(s) == s \in TextoNumerico \cup {"15"}

\* the cleaning chain of resumo_estatistico and gerar_grafico on one cell
Coerce(s) == ToNumericNotNa(NormalizaSeparadores(Strip(s)))

(***************************************************************************)
(* detectar_linha_cabecalho: 0-based index of the header row.              *)
(***************************************************************************)
QtdNaoVazios(row) ==
    Cardinality({i \in 1..Len(row) : Strip(row[i]) \notin Vazios})

HeadRows(df_raw, n) == IF Len(df_raw) <= n THEN df_raw ELSE SubSeq(df_raw, 1, n)

\* int(0.9 * total_cols) and int(0.6 * total_cols)
Limiar90(total_cols) == (9 * total_cols) \div 10
Limiar60(total_cols) == (6 * total_cols) \div 10

\* max(candidatos, key=qtd): the first row holding the largest count
MelhorIdx(subset) ==
    LET qtd(i) == QtdNaoVazios(subset[i])
        best == CHOOSE i \in 1..Len(subset) :
                    /\ \A j \in 1..Len(subset) : qtd(j) <= qtd(i)
                    /\ \A j \in 1..(i - 1) : qtd(j) < qtd(i)
    IN best

detectar_linha_cabecalho(df_raw) ==
    IF Len(df_raw) = 0 THEN 0
    ELSE
      LET total_cols == Len(df_raw[1])
          subset == HeadRows(df_raw, max_linhas)
          cheias == {i \in 1..Len(subset) :
                        QtdNaoVazios(subset[i]) >= Limiar90(total_cols)}
      IN IF cheias # {}
           THEN (CHOOSE i \in cheias : \A j \in cheias : i <= j) - 1
           ELSE IF QtdNaoVazios(subset[MelhorIdx(subset)]) >= Limiar60(total_cols)
                  THEN MelhorIdx(subset) - 1
                  ELSE 0

(***************************************************************************)
(* carregar_csv_flexivel.  A file is [parse, raw]: parse is the outcome of *)
(* pd.read_csv and raw the table it returns (a sequence of rows of equal   *)
(* length).  The result is [exc, df]; a frame is [columns, dtypes, rows].  *)
(***************************************************************************)
NoFrame == [columns |-> <<>>, dtypes |-> <<>>, rows |-> <<>>, ok |-> FALSE]

\* dtype read_csv infers for raw column c: numeric iff every cell is a number or NaN
RawDtype(raw, c) ==
    IF \A r \in 1..Len(raw) : raw[r][c] \in TextoNumerico \cup {"nan"}
      THEN "number" ELSE "object"

carregar_csv_flexivel(arquivo) ==
    IF arquivo.parse # "ok"
      THEN [exc |-> arquivo.parse, df |-> NoFrame]
    ELSE IF Len(arquivo.raw) = 0
      THEN [exc |-> "ValueError", df |-> NoFrame]
    ELSE
      LET df_raw == arquivo.raw
          header_idx == detectar_linha_cabecalho(df_raw)
          ncols == Len(df_raw[1])
          colunas == [c \in 1..ncols |-> Strip(df_raw[header_idx + 1][c])]
      IN [exc |-> "none",
          df |-> [columns |-> colunas,
                  dtypes |-> [c \in 1..ncols |-> RawDtype(df_raw, c)],
                  rows |-> SubSeq(df_raw, header_idx + 2, Len(df_raw)),
                  ok |-> TRUE]]

(***************************************************************************)
(* Frames.  df.columns membership and column access.                       *)
(***************************************************************************)
Columns(df) == {df.columns[c] : c \in 1..Len(df.columns)}

NRows(df) == Len(df.rows)

\* select_dtypes(include="number")
NumericCols(df) == {c \in 1..Len(df.columns) : df.dtypes[c] = "number"}

\* the text columns resumo_estatistico keeps: conv.notna().sum() > 0
PossiveisNumericas(df) ==
    {c \in 1..Len(df.columns) :
        /\ df.columns[c] \notin {df.columns[n] : n \in NumericCols(df)}
        /\ \E r \in 1..NRows(df) : Coerce(df.rows[r][c])}

\* df_num after steps 1 and 2 of resumo_estatistico
DfNumCols(df) == NumericCols(df) \cup PossiveisNumericas(df)

\* DataFrame.empty: no column or no row
DfNumEmpty(df) == DfNumCols(df) = {} \/ NRows(df) = 0

(***************************************************************************)
(* The model service.  A completion is text, or the call raises            *)
(* groq.RateLimitError or another error of the client.                     *)
(***************************************************************************)
LLMOutcomes == {"text", "RateLimitError", "ServiceError"}

\* result of one capability call: the exception it raises ("none" if it
\* returns), its return value, the model calls it issued, the message it gave
\* to st.error ("none" if none), the plot it handed to st.pyplot ("none" if it did not render),
\* and the shared frame after the call
Result(exc, out, calls, sterror, pyplot, df) ==
    [exc |-> exc, out |-> out, calls |-> calls, sterror |-> sterror,
     pyplot |-> pyplot, df |-> df]

(***************************************************************************)
(* informacoes_dataframe: the facts are computed, then one model call.     *)
(***************************************************************************)
informacoes_dataframe(df, llm) ==
    IF llm = "text"
      THEN Result("none", "relatorio_informacoes", 1, "none", "none", df)
      ELSE Result(llm, NoValue, 1, "none", "none", df)

(***************************************************************************)
(* resumo_estatistico.  describe is TRUE when df_num.describe() returns    *)
(* and FALSE when it raises ValueError.                                    *)
(***************************************************************************)
MsgSemNumericas == "Nao foi possivel gerar estatisticas descritivas numericas"
MsgErroDescribe == "Ocorreu um erro ao gerar as estatisticas descritivas numericas"

\* df[col] is a DataFrame, not a Series, when the name col occurs twice
Duplicada(df, col) ==
    Cardinality({c \in 1..Len(df.columns) : df.columns[c] = col}) > 1

\* the loop over df.columns reaches .str on a text column whose name occurs twice
ObjetoDuplicado(df) ==
    \E c \in 1..Len(df.columns) :
        /\ df.columns[c] \notin {df.columns[n] : n \in NumericCols(df)}
        /\ Duplicada(df, df.columns[c])

resumo_estatistico(df, describe, llm) ==
    IF ObjetoDuplicado(df)
      THEN Result("AttributeError", NoValue, 0, "none", "none", df)
    ELSE IF DfNumEmpty(df)
      THEN Result("none", MsgSemNumericas, 0, "none", "none", df)
    ELSE IF ~describe
      THEN Result("none", MsgErroDescribe, 0, "none", "none", df)
    ELSE IF llm = "text"
      THEN Result("none", "relatorio_estatisticas", 1, "none", "none", df)
      ELSE Result(llm, NoValue, 1, "none", "none", df)

(***************************************************************************)
(* gerar_grafico.  cfg is the completion of the configuration prompt:      *)
(* kind "spec" is a JSON object, "nondict" JSON of another type, "notjson" *)
(* text json.loads rejects; the other kinds are errors of the model call.  *)
(* plot is FALSE when a seaborn/matplotlib call raises.                    *)
(***************************************************************************)
Cfg(kind, x_col, y_col, agg, chart_type) ==
    [kind |-> kind, x_col |-> x_col, y_col |-> y_col, agg |-> agg,
     chart_type |-> chart_type]

\* (cfg.get("agg") or "sum") and (cfg.get("chart_type") or "bar")
AggOf(cfg) == IF cfg.agg = NoValue THEN "sum" ELSE cfg.agg
ChartTypeOf(cfg) == IF cfg.chart_type = NoValue THEN "bar" ELSE cfg.chart_type

\* variant: the x column is not validated
ColunaXSemValidacao(df, x_col) == TRUE

\* step 3: both column names are validated against df.columns
ColunaXValida(df, x_col) == x_col \in Columns(df)
ColunaYValida(df, y_col) == y_col = NoValue \/ y_col \in Columns(df)

\* the plot drawn from the aggregated series
\* the messages gerar_grafico gives to st.error
ErroConfiguracao == "Nao consegui interpretar a configuracao de grafico retornada pelo modelo."
ErroColunaX == "Coluna para eixo X nao encontrada no DataFrame"
ErroColunaY == "Coluna para eixo Y nao encontrada no DataFrame"
ErroSemY == "Configuracao de grafico invalida: agg='none' mas 'y_col' nao foi definida."

PlotAgregado(chart_type) ==
    IF chart_type \in {"line", "lineplot"} THEN "lineplot" ELSE "barplot"

gerar_grafico(df, cfg, plot) ==
    IF cfg.kind \in {"RateLimitError", "ServiceError"}
      THEN Result(cfg.kind, NoValue, 1, "none", "none", df)
    ELSE IF cfg.kind = "notjson"
      THEN Result("none", "", 1, ErroConfiguracao, "none", df)
    ELSE IF cfg.kind = "nondict"
      THEN Result("AttributeError", NoValue, 1, "none", "none", df)
    ELSE IF ~ColunaXValida(df, cfg.x_col)
      THEN Result("none", "", 1, ErroColunaX, "none", df)
    ELSE IF ~ColunaYValida(df, cfg.y_col)
      THEN Result("none", "", 1, ErroColunaY, "none", df)
    ELSE
      LET x_col == cfg.x_col
          y_col == cfg.y_col
          agg == AggOf(cfg)
          \* df_plot = df.copy(): the coercion of y_col is written to df_plot
          agrega == agg \in {"sum", "mean"} /\ y_col # NoValue
      IN IF agrega /\ Duplicada(df, y_col)
           THEN Result("AttributeError", NoValue, 1, "none", "none", df)
         ELSE IF (agrega \/ agg = "count") /\ Duplicada(df, x_col)
           THEN Result("ValueError", NoValue, 1, "none", "none", df)
         ELSE IF agrega \/ agg = "count"
           THEN IF plot
                  THEN Result("none", "", 1, "none",
                              PlotAgregado(ChartTypeOf(cfg)), df)
                  ELSE Result("TypeError", NoValue, 1, "none", "none", df)
         ELSE IF y_col = NoValue
           THEN Result("none", "", 1, ErroSemY, "none", df)
         ELSE IF Duplicada(df, y_col)
           THEN Result("AttributeError", NoValue, 1, "none", "none", df)
         ELSE IF plot
           THEN Result("none", "", 1, "none", "histplot", df)
           ELSE Result("TypeError", NoValue, 1, "none", "none", df)

(***************************************************************************)
(* PythonAstREPLTool(locals={"df": df}): the snippet runs on the frame the *)
(* other tools hold.  An input is an expression that evaluates, a snippet  *)
(* that raises, or the statement df[col] = 12.                             *)
(***************************************************************************)
Snippet(kind, col) == [kind |-> kind, col |-> col]

\* df[col] = 12 on frame df
AtribuiColuna(df, col) ==
    IF col \in Columns(df)
      THEN [df EXCEPT
              !.dtypes = [c \in 1..Len(df.columns) |->
                            IF df.columns[c] = col THEN "number" ELSE df.dtypes[c]],
              !.rows = [r \in 1..Len(df.rows) |->
                          [c \in 1..Len(df.columns) |->
                             IF df.columns[c] = col THEN "12" ELSE df.rows[r][c]]]]
      ELSE [df EXCEPT
              !.columns = Append(df.columns, col),
              !.dtypes = Append(df.dtypes, "number"),
              !.rows = [r \in 1..Len(df.rows) |-> Append(df.rows[r], "12")]]

\* the frame bound to the name df in the locals of the evaluator
ReplLocals(df) == df

\* variant: the evaluator lets the exception of the snippet escape
PythonAstREPLToolSemExcept(df, query) ==
    CASE query.kind = "expr" ->
           Result("none", "valor", 0, "none", "none", df)
      [] query.kind = "raise" ->
           Result("ZeroDivisionError", NoValue, 0, "none", "none", df)
      [] OTHER ->
           Result("none", "", 0, "none", "none", AtribuiColuna(df, query.col))

PythonAstREPLTool(df, query) ==
    CASE query.kind = "expr" ->
           Result("none", "valor", 0, "none", "none", ReplLocals(df))
      [] query.kind = "raise" ->
           Result("none", "ZeroDivisionError: division by zero", 0, "none", "none",
                  ReplLocals(df))
      [] OTHER ->
           Result("none", "", 0, "none", "none", AtribuiColuna(ReplLocals(df), query.col))

(***************************************************************************)
(* criar_ferramentas: the registry, in order, with the return_direct flag. *)
(***************************************************************************)
criar_ferramentas ==
    << [name |-> "Informacoes Dataframe", return_direct |-> TRUE],
       [name |-> "Resumo Estatistico", return_direct |-> TRUE],
       [name |-> "Gerar Grafico", return_direct |-> TRUE],
       [name |-> "Codigos Python", return_direct |-> FALSE] >>

ToolNames == {criar_ferramentas[i].name : i \in 1..Len(criar_ferramentas)}

\* variant: the chart tool is registered without return_direct
ReturnDirectSemGrafico(name) ==
    name \in {"Informacoes Dataframe", "Resumo Estatistico"}

\* variant: only the structural report is registered with return_direct
ReturnDirectSoInformacoes(name) == name = "Informacoes Dataframe"

\* name_to_tool_map[name].return_direct
ReturnDirect(name) ==
    \E i \in 1..Len(criar_ferramentas) :
        criar_ferramentas[i].name = name /\ criar_ferramentas[i].return_direct

(***************************************************************************)
(* Inputs of the model: the files a user uploads, the completions of the   *)
(* routing prompt, the chart configurations and the evaluator snippets.    *)
(***************************************************************************)
NoFile == [parse |-> "none", raw |-> <<>>]

Arquivos ==
    { [parse |-> "ParserError", raw |-> <<>>],
      [parse |-> "ok", raw |-> <<>>],
      [parse |-> "ok", raw |-> << <<"Relatorio", "nan", "nan">>,
                                  <<"Nome", "Qtd", "Obs">>,
                                  <<"x", "1,5", "nan">> >>],
      [parse |-> "ok", raw |-> << <<"Nome", "Obs">>, <<"x", "y">> >>],
      [parse |-> "ok", raw |-> << <<"Nome", "Nome">>, <<"x", "y">> >>] }

Snippets == {Snippet("expr", NoValue), Snippet("raise", NoValue),
             Snippet("assign", "Qtd")}

Texto == Snippet("texto", NoValue)

Resposta(kind, tool, tool_input) ==
    [kind |-> kind, tool |-> tool, tool_input |-> tool_input]

\* what the ReAct output parser makes of a completion of the routing prompt
RoutingResponses ==
    {Resposta(k, NoValue, Texto) :
        k \in {"final", "malformed", "RateLimitError", "ServiceError"}}
    \cup {Resposta("action", t, Texto) :
            t \in (ToolNames \ {"Codigos Python"}) \cup {"Outra Ferramenta"}}
    \cup {Resposta("action", "Codigos Python", q) : q \in Snippets}

ChartCfgs ==
    {Cfg(k, NoValue, NoValue, NoValue, NoValue) :
        k \in {"RateLimitError", "ServiceError", "notjson", "nondict"}}
    \cup {Cfg("spec", x, y, a, "bar") :
            x \in {"Nome", "zz"}, y \in {NoValue, "Qtd", "zz"},
            a \in {"sum", "count", "none"}}
    \cup {Cfg("spec", "Nome", NoValue, NoValue, NoValue),
          Cfg("spec", "Nome", "Qtd", "sum", "line"),
          Cfg("spec", NoValue, "Qtd", "none", "hist")}

Perguntas == {"", "pergunta"}

(***************************************************************************)
(* State.                                                                  *)
(***************************************************************************)
VARIABLES
    arquivo,             \* the value of st.file_uploader (NoFile: None)
    sessao,              \* "sem_arquivo", "carregada" or "parada" (st.stop())
    df,                  \* the frame the tools of this run share
    carregado,           \* the frame as carregar_csv_flexivel returned it
    op,                  \* the button pressed in this run
    state,               \* position of orquestrador.invoke
    iterations,          \* AgentExecutor iterations
    intermediate_steps,  \* the scratchpad
    pending,             \* the AgentAction being executed
    output,              \* resposta["output"]
    exc,                 \* the exception that left orquestrador.invoke, and where it rose
    input,               \* the question handed to orquestrador.invoke
    ui,                  \* the messages and elements shown in this run
    session_state,       \* st.session_state
    executed,            \* the capabilities run in this turn, with the frame each saw
    calls,               \* model calls of this turn: routing and inside tools
    turns                \* script runs so far

vars == <<arquivo, sessao, df, carregado, op, state, iterations,
          intermediate_steps, pending, output, exc, input, ui, session_state,
          executed, calls, turns>>

NoAction == Resposta("none", NoValue, Texto)

Exc(type, origem) == [type |-> type, origem |-> origem]
NoExc == Exc("none", "none")

Init ==
    /\ arquivo = NoFile
    /\ sessao = "sem_arquivo"
    /\ df = NoFrame
    /\ carregado = NoFrame
    /\ op = "none"
    /\ state = "IDLE"
    /\ iterations = 0
    /\ intermediate_steps = <<>>
    /\ pending = NoAction
    /\ output = NoValue
    /\ exc = NoExc
    /\ input = NoValue
    /\ ui = {}
    /\ session_state = [relatorio_geral |-> NoValue, relatorio_estatisticas |-> NoValue]
    /\ executed = <<>>
    /\ calls = [routing |-> 0, tool |-> 0]
    /\ turns = 0

(***************************************************************************)
(* The handlers' messages (App.py:214-221, 242-249, 277-284, 303-310).     *)
(***************************************************************************)
MsgRateLimit == "A API da Groq retornou erro de limite de requisicoes (Rate Limit)."

MsgGenerico(b) ==
    CASE b = "relatorio_geral" ->
           "Ocorreu um erro ao gerar o relatorio de informacoes gerais."
      [] b = "relatorio_estatisticas" ->
           "Ocorreu um erro ao gerar o relatorio de estatisticas descritivas."
      [] b = "pergunta" ->
           "Ocorreu um erro ao responder sua pergunta sobre os dados."
      [] OTHER -> "Ocorreu um erro ao gerar o grafico."

\* variant: the handler has the generic except clause only
HandlerExceptGenerico(b, type) == MsgGenerico(b)

\* except groq.RateLimitError: ... except Exception as e: ...
HandlerExcept(b, type) ==
    IF type = "RateLimitError" THEN MsgRateLimit ELSE MsgGenerico(b)

\* what the handler of button b does with resposta["output"]
HandlerUi(b, shown) == IF b = "pergunta" THEN shown \cup {"st.markdown"} ELSE shown

HandlerSessionState(b, ss, o) ==
    CASE b = "relatorio_geral" -> [ss EXCEPT !.relatorio_geral = o]
      [] b = "relatorio_estatisticas" -> [ss EXCEPT !.relatorio_estatisticas = o]
      [] OTHER -> ss

\* the fixed questions of the two quick actions
InputRelatorioGeral == "Quero um relatorio com informacoes sobre os dados"
InputRelatorioEstatisticas == "Quero um relatorio de estatisticas descritivas"

(***************************************************************************)
(* A script run.  App.py runs from the top on every interaction: df is     *)
(* None, then the file, if any, is loaded again; a load error shows its    *)
(* message and stops the script before any button is reached.              *)
(***************************************************************************)
Running == state \in {"ROUTING", "EXECUTING"}

SessaoDe(f) ==
    IF f = NoFile THEN "sem_arquivo"
    ELSE IF carregar_csv_flexivel(f).exc = "none" THEN "carregada" ELSE "parada"

MsgCarga(f) ==
    CASE f = NoFile -> {}
      [] carregar_csv_flexivel(f).exc = "none" -> {"Arquivo carregado com sucesso!"}
      [] carregar_csv_flexivel(f).exc = "ParserError" ->
           {"Nao foi possivel ler o arquivo CSV (erro de parsing)."}
      [] OTHER -> {"Erro ao carregar o arquivo CSV."}

\* variant: the agent is built whether or not a file was loaded
OrquestradorSempre(s) == TRUE

\* the name orquestrador is bound only inside "if arquivo_carregado is not None"
OrquestradorBound(s) == s = "carregada"

ScriptRun(f, b) ==
    /\ ~Running
    /\ turns < MaxTurns
    /\ turns' = turns + 1
    /\ arquivo' = f
    /\ sessao' = SessaoDe(f)
    /\ df' = IF f = NoFile THEN NoFrame ELSE carregar_csv_flexivel(f).df
    /\ carregado' = df'
    /\ op' = b
    /\ iterations' = 0
    /\ intermediate_steps' = <<>>
    /\ pending' = NoAction
    /\ output' = NoValue
    /\ executed' = <<>>
    /\ calls' = [routing |-> 0, tool |-> 0]

\* the user uploads, replaces or removes the file: a run with no button pressed
Upload ==
    \E f \in Arquivos \cup {NoFile} :
        /\ f # arquivo
        /\ ScriptRun(f, "none")
        /\ state' = IF SessaoDe(f) = "parada" THEN "STOPPED" ELSE "IDLE"
        /\ ui' = MsgCarga(f)
        /\ exc' = NoExc
        /\ input' = NoValue
        /\ UNCHANGED session_state

\* orquestrador.invoke(...) under the try of the handler of button b
Invoke(b, pergunta) ==
    IF OrquestradorBound(sessao)
      THEN /\ state' = "ROUTING"
           /\ exc' = NoExc
           /\ input' = pergunta
           /\ ui' = MsgCarga(arquivo)
      ELSE /\ state' = "RAISED"
           /\ exc' = Exc("NameError", "handler")
           /\ input' = NoValue
           /\ ui' = MsgCarga(arquivo) \cup {HandlerExcept(b, "NameError")}

BotaoRelatorioGeral ==
    /\ sessao = "carregada"
    /\ ScriptRun(arquivo, "relatorio_geral")
    /\ Invoke("relatorio_geral", InputRelatorioGeral)
    /\ UNCHANGED session_state

BotaoRelatorioEstatisticas ==
    /\ sessao = "carregada"
    /\ ScriptRun(arquivo, "relatorio_estatisticas")
    /\ Invoke("relatorio_estatisticas", InputRelatorioEstatisticas)
    /\ UNCHANGED session_state

\* a handler at column 0: reached in every run that was not stopped
HandlerPergunta(b) ==
    \E pergunta \in Perguntas :
        /\ sessao # "parada"
        /\ ScriptRun(arquivo, b)
        /\ IF pergunta = ""
             THEN /\ state' = "IDLE"
                  /\ exc' = NoExc
                  /\ input' = NoValue
                  /\ ui' = MsgCarga(arquivo) \cup {"st.warning"}
             ELSE Invoke(b, pergunta)
        /\ UNCHANGED session_state

ResponderPergunta == HandlerPergunta("pergunta")

GerarGrafico == HandlerPergunta("grafico")

(***************************************************************************)
(* orquestrador: AgentExecutor(agent, tools, handle_parsing_errors=True,   *)
(* max_iterations=4).                                                      *)
(***************************************************************************)
RespostaFinal == "resposta_final"
MsgParada == "Agent stopped due to iteration limit or time limit."
MsgInvalida == "Invalid or incomplete response"
MsgFerramentaInvalida == "is not a valid tool, try one of the registered tools"

Step(tool, tool_input, observation) ==
    [tool |-> tool, tool_input |-> tool_input, observation |-> observation]

\* variant: the limit is tested with <= and one more iteration runs
ShouldContinueOffByOne(n) == n <= max_iterations

\* the condition of the loop: iterations < max_iterations
ShouldContinue(n) == n < max_iterations

\* handle_parsing_errors
\* handle_parsing_errors left at its default
HandleParsingErrorsOff == FALSE

HandleParsingErrors == TRUE

\* variant: the lookup ignores the name and answers the first tool
NameToToolPrimeira(name) == 1

\* name_to_tool_map[agent_action.tool]: position of the tool in the registry
NameToTool(name) ==
    CHOOSE i \in 1..Len(criar_ferramentas) : criar_ferramentas[i].name = name

\* the func of the i-th tool of the registry, on the shared frame: every
\* result the call can have, over the completions of the model it asks for
\* and the outcomes of the library calls it makes
ToolFunc(i, tool_input, frame) ==
    CASE i = 1 -> {informacoes_dataframe(frame, llm) : llm \in LLMOutcomes}
      [] i = 2 -> {resumo_estatistico(frame, describe, llm) :
                     describe \in BOOLEAN, llm \in LLMOutcomes}
      [] i = 3 -> {gerar_grafico(frame, cfg, plot) :
                     cfg \in ChartCfgs, plot \in BOOLEAN}
      [] OTHER -> {PythonAstREPLTool(frame, tool_input)}

\* the return of orquestrador.invoke reaches the handler
Return(st, o) ==
    /\ state' = st
    /\ output' = o
    /\ ui' = HandlerUi(op, ui)
    /\ session_state' = HandlerSessionState(op, session_state, o)
    /\ exc' = NoExc

\* an exception leaves orquestrador.invoke and reaches the handler's except
Raise(type, origem, shown) ==
    /\ state' = "RAISED"
    /\ exc' = Exc(type, origem)
    /\ ui' = shown \cup {HandlerExcept(op, type)}
    /\ UNCHANGED <<output, session_state>>

\* one call of the agent: the model completes the routing prompt
Plan ==
    /\ state = "ROUTING"
    /\ ShouldContinue(iterations)
    /\ \E r \in RoutingResponses :
        /\ calls' = [calls EXCEPT !.routing = @ + 1]
        /\ CASE r.kind = "final" ->
                  /\ Return("DONE", RespostaFinal)
                  /\ UNCHANGED <<iterations, intermediate_steps, pending>>
             [] r.kind = "action" ->
                  /\ state' = "EXECUTING"
                  /\ pending' = r
                  /\ UNCHANGED <<iterations, intermediate_steps, output, ui,
                                 session_state, exc>>
             [] r.kind = "malformed" /\ HandleParsingErrors ->
                  /\ intermediate_steps' =
                        Append(intermediate_steps, Step("_Exception", Texto, MsgInvalida))
                  /\ iterations' = iterations + 1
                  /\ UNCHANGED <<state, pending, output, ui, session_state, exc>>
             [] r.kind = "malformed" /\ ~HandleParsingErrors ->
                  /\ Raise("ValueError", "parser", ui)
                  /\ UNCHANGED <<iterations, intermediate_steps, pending>>
             [] OTHER ->
                  /\ Raise(r.kind, "routing", ui)
                  /\ UNCHANGED <<iterations, intermediate_steps, pending>>
    /\ UNCHANGED <<arquivo, sessao, df, carregado, op, input, executed, turns>>

\* the loop ends on the iteration limit: return_stopped_response("force")
Stop ==
    /\ state = "ROUTING"
    /\ ~ShouldContinue(iterations)
    /\ Return("CAPPED", MsgParada)
    /\ UNCHANGED <<arquivo, sessao, df, carregado, op, iterations,
                   intermediate_steps, pending, input, executed, calls, turns>>

\* a lookup name_to_tool_map[name] without the membership test
ExecuteInvalidToolKeyError ==
    /\ state = "EXECUTING"
    /\ pending.tool \notin ToolNames
    /\ Raise("KeyError", "tool", ui)
    /\ UNCHANGED <<arquivo, sessao, df, carregado, op, iterations,
                   intermediate_steps, pending, input, executed, calls, turns>>

\* the action names no registered tool: InvalidTool answers
ExecuteInvalidTool ==
    /\ state = "EXECUTING"
    /\ pending.tool \notin ToolNames
    /\ intermediate_steps' =
          Append(intermediate_steps,
                 Step(pending.tool, pending.tool_input, MsgFerramentaInvalida))
    /\ iterations' = iterations + 1
    /\ state' = "ROUTING"
    /\ UNCHANGED <<arquivo, sessao, df, carregado, op, pending, output, exc,
                   input, ui, session_state, executed, calls, turns>>

\* tool.run(agent_action.tool_input), then the return_direct test
ExecuteTool ==
    /\ state = "EXECUTING"
    /\ pending.tool \in ToolNames
    /\ \E res \in ToolFunc(NameToTool(pending.tool), pending.tool_input, df) :
        LET tool == criar_ferramentas[NameToTool(pending.tool)]
            shown == ui \cup (IF res.sterror # "none" THEN {res.sterror} ELSE {})
                        \cup (IF res.pyplot # "none" THEN {"st.pyplot"} ELSE {})
        IN /\ executed' = Append(executed, [tool |-> tool.name, df |-> df])
           /\ calls' = [calls EXCEPT !.tool = @ + res.calls]
           /\ df' = res.df
           /\ IF res.exc # "none"
                THEN /\ Raise(res.exc, "tool", shown)
                     /\ UNCHANGED <<iterations, intermediate_steps>>
                ELSE /\ intermediate_steps' =
                           Append(intermediate_steps,
                                  Step(tool.name, pending.tool_input, res.out))
                     /\ IF ReturnDirect(tool.name)
                          THEN /\ state' = "DONE"
                               /\ output' = res.out
                               /\ ui' = HandlerUi(op, shown)
                               /\ session_state' =
                                     HandlerSessionState(op, session_state, res.out)
                               /\ exc' = NoExc
                               /\ UNCHANGED iterations
                          ELSE /\ state' = "ROUTING"
                               /\ iterations' = iterations + 1
                               /\ ui' = shown
                               /\ UNCHANGED <<output, session_state, exc>>
    /\ UNCHANGED <<arquivo, sessao, carregado, op, pending, input, turns>>

Next ==
    \/ Upload
    \/ BotaoRelatorioGeral
    \/ BotaoRelatorioEstatisticas
    \/ ResponderPergunta
    \/ GerarGrafico
    \/ Plan
    \/ Stop
    \/ ExecuteInvalidTool
    \/ ExecuteTool

Spec == Init /\ [][Next]_vars

(***************************************************************************)
(* Properties.                                                             *)
(***************************************************************************)
LoopStep == Plan \/ Stop \/ ExecuteInvalidTool \/ ExecuteTool

DirectTools == {"Informacoes Dataframe", "Resumo Estatistico", "Gerar Grafico"}

QuickOps == {"relatorio_geral", "relatorio_estatisticas"}

LastStep == intermediate_steps[Len(intermediate_steps)]

NDirectExecuted ==
    Cardinality({i \in 1..Len(executed) : executed[i].tool \in DirectTools})

\* C1 (as stated): whenever the loop has ended without a final answer of the
\* model, it ended in CAPPED after exactly max_iterations iterations.
C1_Original ==
    (state \in {"DONE", "CAPPED"} /\ output # RespostaFinal)
        => (state = "CAPPED" /\ iterations = max_iterations)

\* C1 (amended): the loop never runs more than max_iterations iterations and the
\* scratchpad never holds more than max_iterations steps; the loop is never
\* stuck; it ends in CAPPED exactly when max_iterations iterations were made,
\* and it ends in DONE only on a final answer of the model or on the return of
\* a direct-return capability, so a run with neither, and with no exception,
\* ends in CAPPED after exactly max_iterations iterations.
C1_Capped ==
    /\ Len(intermediate_steps) <= max_iterations
    /\ iterations <= max_iterations
    /\ calls.routing <= max_iterations
    /\ Running => ENABLED LoopStep
    /\ state = "ROUTING" => iterations = Len(intermediate_steps)
    /\ state = "CAPPED" =>
          /\ iterations = max_iterations
          /\ Len(intermediate_steps) = max_iterations
          /\ calls.routing = max_iterations
          /\ output = MsgParada
    /\ state = "DONE" =>
          \/ output = RespostaFinal
          \/ /\ intermediate_steps # <<>>
             /\ LastStep.tool \in DirectTools
             /\ output = LastStep.observation

C1_Witness ==
    /\ state = "CAPPED"
    /\ iterations = max_iterations
    /\ \A i \in 1..Len(intermediate_steps) :
          intermediate_steps[i].tool \notin DirectTools

\* C2 (as stated): no exception raised by a capability leaves the loop.
C2_Original == exc.origem # "tool"

\* C2 (amended): an exception raised by a snippet of the expression evaluator is
\* caught inside the evaluator and becomes the observation of a step, so every
\* run of the evaluator adds a step; an exception raised inside a report or
\* chart capability leaves the loop without a step and is caught by the
\* handler, which shows the rate-limit or the generic message.
C2_Boundary ==
    /\ \A i \in 1..Len(intermediate_steps) :
          (intermediate_steps[i].tool = "Codigos Python"
             /\ intermediate_steps[i].tool_input.kind = "raise")
          => intermediate_steps[i].observation = "ZeroDivisionError: division by zero"
    /\ Cardinality({i \in 1..Len(executed) : executed[i].tool = "Codigos Python"})
         = Cardinality({i \in 1..Len(intermediate_steps) :
                           intermediate_steps[i].tool = "Codigos Python"})
    /\ exc.origem = "tool" =>
          /\ state = "RAISED"
          /\ pending.tool \in DirectTools
          /\ executed[Len(executed)].tool = pending.tool
          /\ \A i \in 1..Len(intermediate_steps) :
                intermediate_steps[i].tool \notin DirectTools
          /\ HandlerExcept(op, exc.type) \in ui

C2_Witness ==
    /\ exc.origem = "tool"
    /\ exc.type = "TypeError"
    /\ \E i \in 1..Len(intermediate_steps) :
          /\ intermediate_steps[i].tool = "Codigos Python"
          /\ intermediate_steps[i].tool_input.kind = "raise"

C4_Original == Len(executed) <= 1

\* C4 (amended): a turn executes at most one direct-return capability, which is
\* then the last capability of the turn; the expression evaluator may run in
\* every iteration, so a turn executes at most max_iterations capabilities.
C4_Bound ==
    /\ NDirectExecuted <= 1
    /\ Len(executed) <= max_iterations
    /\ \A i \in 1..(Len(executed) - 1) : executed[i].tool = "Codigos Python"

C4_Witness ==
    /\ Len(executed) = max_iterations
    /\ executed[max_iterations].tool = "Resumo Estatistico"

\* C5 (as stated): a quick action runs the capability its button names and
\* involves no routing call.
C5_Original ==
    /\ op = "relatorio_geral" =>
          /\ calls.routing = 0
          /\ \A i \in 1..Len(executed) : executed[i].tool = "Informacoes Dataframe"
    /\ op = "relatorio_estatisticas" =>
          /\ calls.routing = 0
          /\ \A i \in 1..Len(executed) : executed[i].tool = "Resumo Estatistico"

\* C5 (amended): a quick action hands its fixed question to the routing loop;
\* every capability run in the turn was named by the action the model returned
\* for a routing call of that turn, and may be any registered capability.
C5_Routed ==
    [][ (op' \in QuickOps)
          => /\ (op # op' \/ turns # turns') =>
                   /\ state' = "ROUTING"
                   /\ input' = (IF op' = "relatorio_geral"
                                  THEN InputRelatorioGeral
                                  ELSE InputRelatorioEstatisticas)
                   /\ executed' = <<>>
             /\ (turns = turns' /\ executed' # executed) =>
                   /\ state = "EXECUTING"
                   /\ executed' = Append(executed, [tool |-> pending.tool, df |-> df])
                   /\ pending.tool \in ToolNames
                   /\ Len(executed') <= calls.routing
      ]_vars

C5_Witness ==
    /\ op = "relatorio_geral"
    /\ input = InputRelatorioGeral
    /\ executed # <<>>
    /\ executed[1].tool = "Gerar Grafico"
    /\ state = "DONE"

\* C6 (as stated): every capability of a turn is given the frame as it was
\* loaded, whatever the capabilities before it did.
C6_Original ==
    \A i \in 1..Len(executed) : executed[i].df = carregado

MsgsCarga ==
    {"Nao foi possivel ler o arquivo CSV (erro de parsing).",
     "Erro ao carregar o arquivo CSV."}

\* C7: the routing loop runs, a model call is made and a capability is executed
\* only in a run whose file was loaded, and every capability is given a loaded
\* frame; with no file, and after a failed load, no loop starts, and a failed
\* load shows its error message and stops the run before any button.
C7_Loaded ==
    /\ (Running \/ state \in {"DONE", "CAPPED"} \/ executed # <<>>
          \/ calls.routing > 0 \/ calls.tool > 0)
         => /\ sessao = "carregada"
            /\ arquivo # NoFile
            /\ arquivo.parse = "ok"
            /\ Len(arquivo.raw) > 0
            /\ carregado.ok
            /\ Len(carregado.columns) = Len(arquivo.raw[1])
    /\ \A i \in 1..Len(executed) :
          executed[i].df.ok /\ Len(executed[i].df.columns) >= Len(arquivo.raw[1])
    /\ sessao = "parada" =>
          /\ state = "STOPPED"
          /\ op = "none"
          /\ ui \cap MsgsCarga # {}
          /\ ~df.ok
    /\ sessao = "carregada" <=> df.ok

C7_Witness ==
    /\ sessao = "sem_arquivo"
    /\ op = "pergunta"
    /\ state = "RAISED"
    /\ exc.type = "NameError"
    /\ executed = <<>>

ErrosValidacao == {ErroConfiguracao, ErroColunaX, ErroColunaY}

ColunaAusente(f, cfg) ==
    /\ cfg.kind = "spec"
    /\ \/ \A c \in 1..Len(f.columns) : f.columns[c] # cfg.x_col
       \/ /\ cfg.y_col # NoValue
          /\ \A c \in 1..Len(f.columns) : f.columns[c] # cfg.y_col

\* C8: whenever the chart capability is about to run, on the frame it is given,
\* a chart configuration that names an x column or a non-null y column absent
\* from the frame, or that is not JSON, makes gerar_grafico show an error with
\* st.error and return "" without calling st.pyplot; a turn that showed such an
\* error did not render.
C8_Validation ==
    /\ (state = "EXECUTING" /\ pending.tool = "Gerar Grafico") =>
          \A cfg \in ChartCfgs, plot \in BOOLEAN :
              (ColunaAusente(df, cfg) \/ cfg.kind = "notjson") =>
                  /\ gerar_grafico(df, cfg, plot).pyplot = "none"
                  /\ gerar_grafico(df, cfg, plot).sterror \in ErrosValidacao
                  /\ gerar_grafico(df, cfg, plot).exc = "none"
                  /\ gerar_grafico(df, cfg, plot).out = ""
    /\ ui \cap ErrosValidacao # {} =>
          /\ "st.pyplot" \notin ui
          /\ executed[Len(executed)].tool = "Gerar Grafico"
          /\ state = "DONE"
          /\ output = ""

C8_Witness ==
    /\ op = "grafico"
    /\ ErroColunaY \in ui
    /\ state = "DONE"
    /\ "st.pyplot" \notin ui

\* no native numeric column and no text cell that coerces to a number
SemNumericas(f) ==
    \A c \in 1..Len(f.columns) :
        /\ f.dtypes[c] # "number"
        /\ \A r \in 1..Len(f.rows) : ~Coerce(f.rows[r][c])

\* C9 (as stated): when the statistics capability has run on a frame with no
\* numeric and no coercible column, the loop is DONE with the fixed message as
\* output and no model call was made inside a capability.
C9_Original ==
    (/\ executed # <<>>
     /\ executed[Len(executed)].tool = "Resumo Estatistico"
     /\ SemNumericas(executed[Len(executed)].df)
     /\ state # "EXECUTING")
        => /\ state = "DONE"
           /\ output = MsgSemNumericas
           /\ calls.tool = 0

Registradas ==
    {"Informacoes Dataframe", "Resumo Estatistico", "Gerar Grafico", "Codigos Python"}

\* the steps of the scratchpad that answer an unregistered name
NaoRegistradas ==
    {i \in 1..Len(intermediate_steps) :
        intermediate_steps[i].observation = MsgFerramentaInvalida}

\* C12: an action that names an unregistered capability neither ends nor
\* crashes the loop: the step taken from it appends one observation saying the
\* name is not a valid tool, executes nothing, raises nothing and goes back to
\* ROUTING; and when the following response is a final answer the loop is DONE
\* with that single observation in the scratchpad, no capability executed and
\* two calls of the model.
C12_InvalidTool ==
    [][((state = "EXECUTING" /\ pending.tool \notin Registradas)
            => (/\ state' = "ROUTING"
                /\ intermediate_steps' =
                      Append(intermediate_steps,
                             Step(pending.tool, pending.tool_input, MsgFerramentaInvalida))
                /\ iterations' = iterations + 1
                /\ executed' = executed
                /\ exc' = NoExc
                /\ output' = output
                /\ df' = df))
       /\
       ((/\ state = "ROUTING"
         /\ state' = "DONE"
         /\ output' = RespostaFinal
         /\ Len(intermediate_steps) = 1
         /\ NaoRegistradas = {1})
            => (/\ intermediate_steps' = intermediate_steps
                /\ executed' = <<>>
                /\ calls'.routing = 2
                /\ calls'.tool = 0
                /\ exc' = NoExc))]_vars

C12_Witness ==
    /\ state = "DONE"
    /\ output = RespostaFinal
    /\ Len(intermediate_steps) = 1
    /\ intermediate_steps[1].tool \notin Registradas
    /\ intermediate_steps[1].observation = MsgFerramentaInvalida
    /\ executed = <<>>
    /\ calls.routing = 2

\* the steps of the scratchpad recorded for a malformed response
Malformadas ==
    {i \in 1..Len(intermediate_steps) : intermediate_steps[i].tool = "_Exception"}

SoMalformadas ==
    /\ Len(intermediate_steps) = max_iterations
    /\ Malformadas = 1..Len(intermediate_steps)

NomesColunas == <<"Nome", "Qtd", "Obs", "Ano", "Mes">>

\* a row above the header: at most the cell g is filled (g = 0: none)
LinhaSuja(ncols, g) == [c \in 1..ncols |-> IF c = g THEN "Relatorio" ELSE "nan"]

\* a header row with every cell filled, with distinct or with repeated names
LinhaCabecalho(ncols, repetida) ==
    [c \in 1..ncols |-> IF repetida THEN "Nome" ELSE NomesColunas[c]]

LinhaDados(ncols) == [c \in 1..ncols |-> IF c = 1 THEN "x" ELSE "12"]

\* k rows above the header (all of pattern g, or, for g = ncols + 1, row i of
\* pattern i modulo ncols + 1), the header, nd rows of data
TabelaSuja(ncols, k, g, repetida, nd) ==
    [i \in 1..(k + 1 + nd) |->
        IF i <= k
          THEN LinhaSuja(ncols, IF g = ncols + 1 THEN i % (ncols + 1) ELSE g)
          ELSE IF i = k + 1 THEN LinhaCabecalho(ncols, repetida)
          ELSE LinhaDados(ncols)]

LinhasAcima == {0, 1, 5, 14}

TabelasSujas ==
    {TabelaSuja(t[1], t[2], t[3], t[4], t[5]) :
        t \in {u \in (1..MaxColunas) \X LinhasAcima \X (0..(MaxColunas + 1))
                       \X BOOLEAN \X (0..MaxDados) : u[3] <= u[1] + 1}}

\* every table of one or two rows and one or two columns over three cells
TabelasPequenas ==
    UNION {[1..nr -> [1..nc -> {"nan", "a", "b"}]] : nr \in 1..2, nc \in 1..2}

Tabelas == TabelasSujas \cup TabelasPequenas

ArquivosCarga ==
    {[parse |-> "ok", raw |-> t] : t \in Tabelas}
    \cup {[parse |-> "ParserError", raw |-> <<>>], [parse |-> "ok", raw |-> <<>>]}

\* the run has the uploaded file in hand and df is still None (App.py:126-130)
InitCarga ==
    /\ arquivo \in ArquivosCarga
    /\ sessao = "sem_arquivo"
    /\ df = NoFrame
    /\ carregado = NoFrame
    /\ op = "none"
    /\ state = "IDLE"
    /\ iterations = 0
    /\ intermediate_steps = <<>>
    /\ pending = NoAction
    /\ output = NoValue
    /\ exc = NoExc
    /\ input = NoValue
    /\ ui = {}
    /\ session_state = [relatorio_geral |-> NoValue, relatorio_estatisticas |-> NoValue]
    /\ executed = <<>>
    /\ calls = [routing |-> 0, tool |-> 0]
    /\ turns = 0

\* df = carregar_csv_flexivel(arquivo_carregado) and its except clauses
Carregar ==
    /\ arquivo # NoFile
    /\ sessao = "sem_arquivo"
    /\ turns = 0
    /\ turns' = turns + 1
    /\ sessao' = SessaoDe(arquivo)
    /\ df' = carregar_csv_flexivel(arquivo).df
    /\ carregado' = df'
    /\ state' = IF SessaoDe(arquivo) = "parada" THEN "STOPPED" ELSE "IDLE"
    /\ ui' = MsgCarga(arquivo)
    /\ UNCHANGED <<arquivo, op, iterations, intermediate_steps, pending, output,
                   exc, input, session_state, executed, calls>>

NextCarga == Carregar

SpecCarga == InitCarga /\ [][NextCarga]_vars

CelulaVazia(s) == s \in {"", " ", "nan", "NaN", "NONE", "None"}

\* raw is k rows with at most one filled cell (and, so that k is the first row
\* that can be the header, not every cell filled), then a row with every cell
\* filled
FormaSuja(raw, k) ==
    /\ Len(raw) > k
    /\ \A i \in 1..k :
          /\ Cardinality({c \in 1..Len(raw[i]) : ~CelulaVazia(raw[i][c])}) <= 1
          /\ \E c \in 1..Len(raw[i]) : CelulaVazia(raw[i][c])
    /\ \A c \in 1..Len(raw[k + 1]) : ~CelulaVazia(raw[k + 1][c])

\* C11 (as stated): for a loaded table of K rows with at most one filled cell
\* followed by a header row with every cell filled, K in {0, 1, 5, 14}, whatever
\* the number of columns, detectar_linha_cabecalho answers K and the frame takes
\* its column names from row K.
C11_Original ==
    \A k \in LinhasAcima :
        (sessao = "carregada" /\ FormaSuja(arquivo.raw, k))
            => /\ detectar_linha_cabecalho(arquivo.raw) = k
               /\ carregado.columns = arquivo.raw[k + 1]

\* C14 (as stated): after every successful load the column names of the frame
\* are pairwise distinct, whatever the header row holds, the frame has as many
\* columns as the raw table, and its rows are the raw rows below the detected
\* header row.
C14_Original ==
    sessao = "carregada"
        => /\ \A c, d \in 1..Len(carregado.columns) :
                  c # d => carregado.columns[c] # carregado.columns[d]
           /\ Len(carregado.columns) = Len(arquivo.raw[1])
           /\ carregado.rows =
                 SubSeq(arquivo.raw, detectar_linha_cabecalho(arquivo.raw) + 2,
                        Len(arquivo.raw))

====
